---- MODULE Spec2Model ----
(***************************************************************************)
(* KVStorage<Clock> (src/KVStorage.cpp): an in-memory key-value store with *)
(* per-key TTL.  kv_map_ is the std::map key -> (value, death_time),       *)
(* expiration_set_ the std::set of (map_key, death_time) ordered by        *)
(* timedSetComparator.  The clock is the FakeClock of src/tests.cpp, which *)
(* the caller may set to any value or advance.                             *)
(*                                                                         *)
(* Keys are represented by their lexicographic rank (1 < 2 < 3 stands for  *)
(* "a" < "b" < "c"), times are unsigned integers of a reduced width: all   *)
(* arithmetic on them is taken modulo maxTime_ + 1, as uint64_t arithmetic *)
(* is taken modulo 2^64.                                                   *)
(***************************************************************************)
EXTENDS Integers, Sequences, FiniteSets, TLC

\* ---------------------------------------------------------------- bounds
MaxTime == 2
MaxTtl == 1
MaxCount == 2
MaxEntries == 2

Keys == {1, 2, 3}
Values == {"v1", "v2"}

\* ------------------------------------------------------------- constants
\* std::numeric_limits<uint64_t>::max() at the reduced width
maxTime_ == MaxTime

Times == 0 .. maxTime_
Ttls == 0 .. MaxTtl
Counts == 0 .. MaxCount

\* std::nullopt
nullopt == [has_value |-> FALSE]

VARIABLES
    kv_map_,          \* function: the keys present -> [value, death_time]
    expiration_set_,  \* set of [map_key, death_time]
    time,             \* FakeTimeManager::time, what clock_() returns
    written,          \* history: per present key, whether its most recent set
                      \* used ttl 0, and else the unbounded sum (clock at that
                      \* set) + ttl
    last              \* history: the most recent call, its arguments and result;
                      \* for set and remove how the entry of the key stood
                      \* before the call (before), for set the other keys'
                      \* part of the store before it (rest), for the other
                      \* calls the store before them (pre), for a clock
                      \* change the value it had (from)

vars == <<kv_map_, expiration_set_, time, written, last>>

\* --------------------------------------------------------------- helpers
timedSetMember(key, dt) == [map_key |-> key, death_time |-> dt]

timedKVMember(value, dt) == [value |-> value, death_time |-> dt]

\* mutant: ties on death_time are broken by descending key
timedSetComparator_keyDesc(lhs, rhs) ==
    \/ lhs.death_time < rhs.death_time
    \/ (lhs.death_time = rhs.death_time /\ lhs.map_key > rhs.map_key)

\* mutant: death_time alone is compared (the cmp_ left in the comment)
timedSetComparator_timeOnly(lhs, rhs) == lhs.death_time < rhs.death_time

\* strict weak order of expiration_set_
timedSetComparator(lhs, rhs) ==
    \/ lhs.death_time < rhs.death_time
    \/ (lhs.death_time = rhs.death_time /\ lhs.map_key < rhs.map_key)

\* mutant: the greatest element (rbegin) instead of the least
begin_last(es) ==
    CHOOSE m \in es : \A o \in es : o = m \/ timedSetComparator(o, m)

\* expiration_set_.begin(): the least element under timedSetComparator
begin(es) ==
    CHOOSE m \in es : \A o \in es : o = m \/ timedSetComparator(m, o)

\* std::set::find: an element equivalent to tmp under the comparator
find(es, tmp) ==
    {m \in es : ~timedSetComparator(m, tmp) /\ ~timedSetComparator(tmp, m)}

mapContains(kv, key) == key \in DOMAIN kv

\* mutant: the clock is not added to the ttl
getDeathTime_noClock(ttl, now) ==
    IF ttl = 0 THEN maxTime_ ELSE ttl % (maxTime_ + 1)

getDeathTime_(ttl, now) ==
    IF ttl = 0 THEN maxTime_ ELSE (ttl + now) % (maxTime_ + 1)

\* mutant: the old row is left behind
tryToRemoveFromSet_keep(kv, es, key) == es

\* the expiration set after tryToRemoveFromSet(key); key is in kv
tryToRemoveFromSet(kv, es, key) ==
    LET tmp == timedSetMember(key, kv[key].death_time)
    IN  es \ find(es, tmp)

\* mutant: an entry is still available at its death_time
keyAvailable_ge(kv, es, key, now) ==
    IF ~mapContains(kv, key) THEN FALSE
    ELSE LET tmp == timedSetMember(key, kv[key].death_time)
             it == find(es, tmp)
         IN  IF it # {} THEN (CHOOSE m \in it : TRUE).death_time >= now
             ELSE TRUE

\* mutant: an entry is unavailable only at its death_time itself
keyAvailable_ne(kv, es, key, now) ==
    IF ~mapContains(kv, key) THEN FALSE
    ELSE LET tmp == timedSetMember(key, kv[key].death_time)
             it == find(es, tmp)
         IN  IF it # {} THEN (CHOOSE m \in it : TRUE).death_time # now
             ELSE TRUE

\* mutant: the death_time of the map decides, without looking at the set
keyAvailable_sentinel(kv, es, key, now) ==
    IF ~mapContains(kv, key) THEN FALSE
    ELSE kv[key].death_time > now

keyAvailable(kv, es, key, now) ==
    IF ~mapContains(kv, key) THEN FALSE
    ELSE LET tmp == timedSetMember(key, kv[key].death_time)
             it == find(es, tmp)
         IN  IF it # {} THEN (CHOOSE m \in it : TRUE).death_time > now
             ELSE TRUE

\* ------------------------------------------------- operations as functions
\* each takes the store [kv, es] and returns the store after the call

\* mutant: the row is inserted for ttl 0 as well
set_alwaysRow(st, key, value, ttl, now) ==
    LET es1 == IF mapContains(st.kv, key)
               THEN tryToRemoveFromSet(st.kv, st.es, key)
               ELSE st.es
        dt  == getDeathTime_(ttl, now)
        es2 == IF find(es1, timedSetMember(key, dt)) = {}
               THEN es1 \cup {timedSetMember(key, dt)}
               ELSE es1
        kv2 == [k \in DOMAIN st.kv \cup {key} |->
                   IF k = key THEN timedKVMember(value, dt) ELSE st.kv[k]]
    IN  [kv |-> kv2, es |-> es2]

\* mutant: the old row of an existing key is not looked for
set_noCleanup(st, key, value, ttl, now) ==
    LET dt  == getDeathTime_(ttl, now)
        es2 == IF ttl # 0
               THEN (IF find(st.es, timedSetMember(key, dt)) = {}
                     THEN st.es \cup {timedSetMember(key, dt)}
                     ELSE st.es)
               ELSE st.es
        kv2 == [k \in DOMAIN st.kv \cup {key} |->
                   IF k = key THEN timedKVMember(value, dt) ELSE st.kv[k]]
    IN  [kv |-> kv2, es |-> es2]

set(st, key, value, ttl, now) ==
    LET es1 == IF mapContains(st.kv, key)
               THEN tryToRemoveFromSet(st.kv, st.es, key)
               ELSE st.es
        dt  == getDeathTime_(ttl, now)
        es2 == IF ttl # 0
               THEN (IF find(es1, timedSetMember(key, dt)) = {}
                     THEN es1 \cup {timedSetMember(key, dt)}
                     ELSE es1)
               ELSE es1
        kv2 == [k \in DOMAIN st.kv \cup {key} |->
                   IF k = key THEN timedKVMember(value, dt) ELSE st.kv[k]]
    IN  [kv |-> kv2, es |-> es2]

\* mutant: the expiration row of the key is left behind
remove_keepRow(st, key) ==
    IF ~mapContains(st.kv, key)
    THEN [kv |-> st.kv, es |-> st.es, ret |-> FALSE]
    ELSE [kv |-> [k \in DOMAIN st.kv \ {key} |-> st.kv[k]],
          es |-> st.es,
          ret |-> TRUE]

\* mutant: reports a removal also when the key was not there
remove_alwaysTrue(st, key) ==
    IF ~mapContains(st.kv, key)
    THEN [kv |-> st.kv, es |-> st.es, ret |-> TRUE]
    ELSE [kv |-> [k \in DOMAIN st.kv \ {key} |-> st.kv[k]],
          es |-> tryToRemoveFromSet(st.kv, st.es, key),
          ret |-> TRUE]

remove(st, key) ==
    IF ~mapContains(st.kv, key)
    THEN [kv |-> st.kv, es |-> st.es, ret |-> FALSE]
    ELSE [kv |-> [k \in DOMAIN st.kv \ {key} |-> st.kv[k]],
          es |-> tryToRemoveFromSet(st.kv, st.es, key),
          ret |-> TRUE]

get(st, key, now) ==
    IF ~keyAvailable(st.kv, st.es, key, now) THEN nullopt
    ELSE [has_value |-> TRUE, value |-> st.kv[key].value]

\* std::map::operator[]: the map after kv_map_[key], which inserts a
\* value-initialized timedKVMember when the key is missing
subscript(kv, key) ==
    IF key \in DOMAIN kv THEN kv
    ELSE [k \in DOMAIN kv \cup {key} |->
             IF k = key THEN timedKVMember("", 0) ELSE kv[k]]

\* mutant: the value is read through operator[] before the availability test
getMap_eager(st, key, now) == subscript(st.kv, key)

\* kv_map_ after get: operator[] is reached only for an available key
getMap(st, key, now) ==
    IF ~keyAvailable(st.kv, st.es, key, now) THEN st.kv
    ELSE subscript(st.kv, key)

\* mutant: an expired entry uses up one of the count slots
RECURSIVE scanLoop_slots(_, _, _, _, _)
scanLoop_slots(kv, it, key, count, now) ==
    IF it > Cardinality(Keys) \/ count = 0 THEN << >>
    ELSE IF it \notin DOMAIN kv THEN scanLoop_slots(kv, it + 1, key, count, now)
    ELSE IF kv[it].death_time <= now
         THEN scanLoop_slots(kv, it + 1, key, count - 1, now)
    ELSE IF it >= key
         THEN << <<it, kv[it].value>> >>
              \o scanLoop_slots(kv, it + 1, key, count - 1, now)
         ELSE scanLoop_slots(kv, it + 1, key, count, now)

\* the loop of getManySorted from map position it (a key rank) on
RECURSIVE scanLoop(_, _, _, _, _)
scanLoop(kv, it, key, count, now) ==
    IF it > Cardinality(Keys) \/ count = 0 THEN << >>
    ELSE IF it \notin DOMAIN kv THEN scanLoop(kv, it + 1, key, count, now)
    ELSE IF kv[it].death_time <= now THEN scanLoop(kv, it + 1, key, count, now)
    ELSE IF it >= key
         THEN << <<it, kv[it].value>> >> \o scanLoop(kv, it + 1, key, count - 1, now)
         ELSE scanLoop(kv, it + 1, key, count, now)

\* mutant: an entry whose death_time equals now is still returned
getManySorted_lt(st, key, count, now) ==
    IF count = 0 THEN << >> ELSE scanLoop(st.kv, 1, key, count, now - 1)

getManySorted(st, key, count, now) ==
    IF count = 0 THEN << >> ELSE scanLoop(st.kv, 1, key, count, now)

\* mutant: an entry whose death_time equals now is not yet evicted
removeOneExpiredEntry_strict(st, now) ==
    IF st.es = {} \/ begin(st.es).death_time >= now
    THEN [kv |-> st.kv, es |-> st.es, ret |-> nullopt]
    ELSE LET key == begin(st.es).map_key
             removed == [has_value |-> TRUE, key |-> key,
                         value |-> st.kv[key].value]
             r == remove(st, key)
         IN  [kv |-> r.kv, es |-> r.es, ret |-> removed]

removeOneExpiredEntry(st, now) ==
    IF st.es = {} \/ begin(st.es).death_time > now
    THEN [kv |-> st.kv, es |-> st.es, ret |-> nullopt]
    ELSE LET key == begin(st.es).map_key
             removed == [has_value |-> TRUE, key |-> key,
                         value |-> st.kv[key].value]
             r == remove(st, key)
         IN  [kv |-> r.kv, es |-> r.es, ret |-> removed]

\* --------------------------------------------------------------- history
store == [kv |-> kv_map_, es |-> expiration_set_]

\* the store without the entry and the rows of key
restrict(st, key) ==
    [kv |-> [k \in DOMAIN st.kv \ {key} |-> st.kv[k]],
     es |-> {m \in st.es : m.map_key # key}]

\* what the caller asked for in the most recent set of key
writtenAfterSet(w, key, ttl, now) ==
    [k \in DOMAIN w \cup {key} |->
        IF k = key
        THEN [immortal |-> (ttl = 0), expires |-> IF ttl = 0 THEN 0 ELSE now + ttl]
        ELSE w[k]]

\* how the entry of key stands before a call: "none", "immortal" (ttl 0),
\* "live" (death_time > now) or "expired"
kindOf(key) ==
    IF key \notin DOMAIN kv_map_ THEN "none"
    ELSE IF written[key].immortal THEN "immortal"
    ELSE IF kv_map_[key].death_time > time THEN "live"
    ELSE "expired"

\* ------------------------------------------------------------ constructor
Entries == Keys \X Values \X Ttls

\* mutant: a key already present is not written again (insert, not set)
RECURSIVE KVStorage_firstWins(_, _, _)
KVStorage_firstWins(entries, now, acc) ==
    IF entries = << >> THEN acc
    ELSE LET e == Head(entries)
             s == set([kv |-> acc.kv, es |-> acc.es], e[1], e[2], e[3], now)
         IN  IF e[1] \in DOMAIN acc.kv
             THEN KVStorage_firstWins(Tail(entries), now, acc)
             ELSE KVStorage_firstWins(Tail(entries), now,
                       [kv |-> s.kv, es |-> s.es,
                        w |-> writtenAfterSet(acc.w, e[1], e[3], now)])

RECURSIVE KVStorage(_, _, _)
KVStorage(entries, now, acc) ==
    IF entries = << >> THEN acc
    ELSE LET e == Head(entries)
             s == set([kv |-> acc.kv, es |-> acc.es], e[1], e[2], e[3], now)
         IN  KVStorage(Tail(entries), now,
                       [kv |-> s.kv, es |-> s.es,
                        w |-> writtenAfterSet(acc.w, e[1], e[3], now)])

EntrySeqs == UNION {[1 .. n -> Entries] : n \in 0 .. MaxEntries}

emptyStore == [kv |-> << >>, es |-> {}, w |-> << >>]

Init ==
    \E entries \in EntrySeqs, t0 \in Times :
        LET s == KVStorage(entries, t0, emptyStore)
        IN  /\ kv_map_ = s.kv
            /\ expiration_set_ = s.es
            /\ written = s.w
            /\ time = t0
            /\ last = [name |-> "KVStorage", entries |-> entries]

\* ---------------------------------------------------------------- actions
Set(key, value, ttl) ==
    LET s == set(store, key, value, ttl, time)
    IN  /\ kv_map_' = s.kv
        /\ expiration_set_' = s.es
        /\ written' = writtenAfterSet(written, key, ttl, time)
        /\ last' = [name |-> "set", key |-> key, value |-> value, ttl |-> ttl,
                    before |-> kindOf(key), rest |-> restrict(store, key)]
        /\ UNCHANGED time

Remove(key) ==
    LET r == remove(store, key)
    IN  /\ kv_map_' = r.kv
        /\ expiration_set_' = r.es
        /\ written' = [k \in DOMAIN r.kv |-> written[k]]
        /\ last' = [name |-> "remove", key |-> key, ret |-> r.ret,
                    before |-> kindOf(key), pre |-> store]
        /\ UNCHANGED time

Get(key) ==
    /\ kv_map_' = getMap(store, key, time)
    /\ last' = [name |-> "get", key |-> key, ret |-> get(store, key, time),
                pre |-> store]
    /\ UNCHANGED <<expiration_set_, written, time>>

GetManySorted(key, count) ==
    /\ last' = [name |-> "getManySorted", key |-> key, count |-> count,
                ret |-> getManySorted(store, key, count, time), pre |-> store]
    /\ UNCHANGED <<kv_map_, expiration_set_, written, time>>

RemoveOneExpiredEntry ==
    LET r == removeOneExpiredEntry(store, time)
    IN  /\ kv_map_' = r.kv
        /\ expiration_set_' = r.es
        /\ written' = [k \in DOMAIN r.kv |-> written[k]]
        /\ last' = [name |-> "removeOneExpiredEntry", ret |-> r.ret,
                    pre |-> store, prew |-> written]
        /\ UNCHANGED time

\* FakeClock::set
ClockSet(t) ==
    /\ time' = t
    /\ last' = [name |-> "clock", from |-> time]
    /\ UNCHANGED <<kv_map_, expiration_set_, written>>

\* FakeClock::advance
ClockAdvance(seconds) ==
    /\ time' = (time + seconds) % (maxTime_ + 1)
    /\ last' = [name |-> "clock", from |-> time]
    /\ UNCHANGED <<kv_map_, expiration_set_, written>>

Next ==
    \/ \E key \in Keys, value \in Values, ttl \in Ttls : Set(key, value, ttl)
    \/ \E key \in Keys : Remove(key)
    \/ \E key \in Keys : Get(key)
    \/ \E key \in Keys, count \in Counts : GetManySorted(key, count)
    \/ RemoveOneExpiredEntry
    \/ \E t \in Times : ClockSet(t)
    \/ \E seconds \in 1 .. MaxTtl : ClockAdvance(seconds)

Spec == Init /\ [][Next]_vars

\* ================================================================= claims
some(value) == [has_value |-> TRUE, value |-> value]

rowsOf(es, key) == {m \in es : m.map_key = key}

\* ---------------------------------------------------------------------
\* C1 as stated: (t, k) is in the expiration index iff k is in the primary
\* index with a finite death_time (one that is not the sentinel) equal to t.
I1_AsStated ==
    \A k \in Keys, t \in Times :
        timedSetMember(k, t) \in expiration_set_
        <=> (k \in DOMAIN kv_map_ /\ kv_map_[k].death_time = t /\ t # maxTime_)

\* C1 amended: (t, k) is in the expiration index iff k is in the primary
\* index with death_time t and the most recent set of k used ttl # 0; the
\* expiration index holds nothing else.
I1_Consistency ==
    /\ \A m \in expiration_set_ :
           /\ m.map_key \in DOMAIN kv_map_
           /\ kv_map_[m.map_key].death_time = m.death_time
           /\ ~written[m.map_key].immortal
    /\ \A k \in DOMAIN kv_map_ :
           ~written[k].immortal
           => timedSetMember(k, kv_map_[k].death_time) \in expiration_set_

\* an immortal entry overwritten with a ttl that lands on the sentinel
I1_Witness ==
    /\ last.name = "set" /\ last.ttl # 0 /\ last.before = "immortal"
    /\ kv_map_[last.key].death_time = maxTime_
    /\ timedSetMember(last.key, maxTime_) \in expiration_set_

\* ---------------------------------------------------------------------
\* C2 as stated: get returns the stored value iff the key is in the primary
\* index and its death_time > now, and absent otherwise.
Get_AsStated ==
    last.name = "get" =>
        LET k == last.key
        IN  IF k \in DOMAIN kv_map_ /\ kv_map_[k].death_time > time
            THEN last.ret = some(kv_map_[k].value)
            ELSE last.ret = nullopt

\* C2 amended: get returns the stored value iff the key is in the primary
\* index and either its most recent set used ttl 0 or its death_time > now;
\* absent for a missing key and for a key written with ttl > 0 whose
\* death_time <= now.
Get_LiveOnly ==
    last.name = "get" =>
        LET k == last.key
        IN  IF /\ k \in DOMAIN kv_map_
               /\ (written[k].immortal \/ kv_map_[k].death_time > time)
            THEN last.ret = some(kv_map_[k].value)
            ELSE last.ret = nullopt

\* get of an entry whose death_time is exactly now
Get_Witness ==
    /\ last.name = "get" /\ last.key \in DOMAIN kv_map_
    /\ ~written[last.key].immortal
    /\ kv_map_[last.key].death_time = time
    /\ last.ret = nullopt

\* ---------------------------------------------------------------------
\* C3 (P2): a key set with ttl T > 0 at time t0 and not written or removed
\* since is returned by get at every time < t0 + T and absent at every time
\* >= t0 + T.
P2_ExpirationBoundary ==
    (last.name = "get" /\ last.key \in DOMAIN kv_map_
                       /\ ~written[last.key].immortal) =>
        IF time < written[last.key].expires
        THEN last.ret = some(kv_map_[last.key].value)
        ELSE last.ret = nullopt

\* ---------------------------------------------------------------------
\* C4 (P1): a key whose most recent set used ttl 0 and that was not removed
\* since is returned by get at every clock value, the maximum included.
P1_Immortality ==
    (last.name = "get" /\ last.key \in DOMAIN kv_map_
                       /\ written[last.key].immortal) =>
        last.ret = some(kv_map_[last.key].value)

\* get of an immortal entry with the clock at the sentinel value
P1_Witness ==
    /\ last.name = "get" /\ last.key \in DOMAIN kv_map_
    /\ written[last.key].immortal /\ time = maxTime_
    /\ last.ret = some(kv_map_[last.key].value)

\* ---------------------------------------------------------------------
\* C5 (P3): set on an existing key replaces the value and the death_time by
\* the newly computed one whatever the old one was; the expiration index
\* then holds for the key exactly the new row if ttl # 0 and no row if
\* ttl = 0.  A key written with ttl 0 has no row, and an eviction only
\* returns a key that had a row, so such a key is never evicted.
P3_OverwriteResets ==
    /\ last.name = "set" =>
           LET k  == last.key
               dt == IF last.ttl = 0 THEN maxTime_
                     ELSE (time + last.ttl) % (maxTime_ + 1)
           IN  /\ k \in DOMAIN kv_map_
               /\ kv_map_[k] = [value |-> last.value, death_time |-> dt]
               /\ rowsOf(expiration_set_, k)
                      = IF last.ttl = 0 THEN {} ELSE {timedSetMember(k, dt)}
    /\ \A k \in DOMAIN kv_map_ :
           written[k].immortal => rowsOf(expiration_set_, k) = {}
    /\ (last.name = "removeOneExpiredEntry" /\ last.ret.has_value) =>
           rowsOf(last.pre.es, last.ret.key) # {}

\* a key with a finite death_time overwritten with ttl 0
P3_Witness ==
    /\ last.name = "set" /\ last.ttl = 0
    /\ last.before \in {"live", "expired"}

\* ---------------------------------------------------------------------
\* C6 (P4): remove returns true exactly when the key was in the primary
\* index before the call, expired or not; afterwards the key is in neither
\* index, a repeated remove returns false and get returns absent.
P4_Remove ==
    last.name = "remove" =>
        /\ last.ret = (last.before # "none")
        /\ last.key \notin DOMAIN kv_map_
        /\ rowsOf(expiration_set_, last.key) = {}
        /\ remove(store, last.key).ret = FALSE
        /\ get(store, last.key, time) = nullopt

\* an expired entry that was not evicted is removed
P4_Witness ==
    last.name = "remove" /\ last.before = "expired" /\ last.ret = TRUE

\* ---------------------------------------------------------------------
\* C7 (P5): getManySorted(k, n) returns at most n entries, every returned
\* key is >= k, the keys are strictly ascending, no returned entry has
\* death_time <= now, and n = 0 gives the empty sequence.
P5_ScanOrderingFiltering ==
    last.name = "getManySorted" =>
        LET r == last.ret
        IN  /\ Len(r) <= last.count
            /\ \A i \in 1 .. Len(r) :
                   /\ r[i][1] >= last.key
                   /\ r[i][1] \in DOMAIN kv_map_
                   /\ kv_map_[r[i][1]].death_time > time
            /\ \A i, j \in 1 .. Len(r) : i < j => r[i][1] < r[j][1]
            /\ (last.count = 0 => r = << >>)

\* a scan that fills its count while an expired entry lies in its range
P5_Witness ==
    /\ last.name = "getManySorted"
    /\ last.count >= 2 /\ Len(last.ret) = last.count
    /\ \E k \in DOMAIN kv_map_ :
           k >= last.key /\ kv_map_[k].death_time <= time

\* ---------------------------------------------------------------------
\* C8: getManySorted(k, n) returns exactly the first min(n, m) entries, in
\* ascending key order and with their current values, of the m entries of
\* the primary index with key >= k and death_time > now.
Scan_Completeness ==
    last.name = "getManySorted" =>
        LET r    == last.ret
            live == {k \in DOMAIN kv_map_ :
                        k >= last.key /\ kv_map_[k].death_time > time}
            m    == Cardinality(live)
            n    == IF last.count < m THEN last.count ELSE m
        IN  /\ Len(r) = n
            /\ \A i \in 1 .. Len(r) :
                   /\ r[i][1] \in live
                   /\ Cardinality({j \in live : j < r[i][1]}) = i - 1
                   /\ r[i][2] = kv_map_[r[i][1]].value

\* a live entry below the start key and an expired one in range are passed
\* over, and the scan still fills its count
Scan_Witness ==
    /\ last.name = "getManySorted"
    /\ last.count >= 1 /\ Len(last.ret) = last.count
    /\ \E k \in DOMAIN kv_map_ : k < last.key /\ kv_map_[k].death_time > time
    /\ \E k \in DOMAIN kv_map_ :
           /\ k >= last.key /\ kv_map_[k].death_time <= time
           /\ k < last.ret[1][1]

\* ---------------------------------------------------------------------
\* the keys written with ttl > 0 (those with a row) whose death_time <= now
expiredKeys(st, now) ==
    {k \in DOMAIN st.kv :
        rowsOf(st.es, k) # {} /\ st.kv[k].death_time <= now}

\* C9 (P6): at a fixed clock value an eviction returns absent, and changes
\* nothing, exactly when no entry is expired; otherwise it returns one of
\* the expired entries and takes exactly that one out of the expired ones.
\* So repeated evictions return every expired entry once, never an
\* unexpired one, and absent once the expired ones are exhausted.
P6_EvictionDrains ==
    last.name = "removeOneExpiredEntry" =>
        LET E == expiredKeys(last.pre, time)
        IN  IF E = {}
            THEN last.ret = nullopt /\ store = last.pre
            ELSE /\ last.ret.has_value
                 /\ last.ret.key \in E
                 /\ last.pre.kv[last.ret.key].death_time <= time
                 /\ expiredKeys(store, time) = E \ {last.ret.key}

\* an eviction with two expired entries and an unexpired one in the index
P6_Witness ==
    /\ last.name = "removeOneExpiredEntry" /\ last.ret.has_value
    /\ Cardinality(expiredKeys(last.pre, time)) >= 2
    /\ \E m \in expiration_set_ : m.death_time > time

\* ---------------------------------------------------------------------
\* the least row of es: least death_time, and least key among those
isMinimum(es, m) ==
    /\ m \in es
    /\ \A o \in es :
           \/ m.death_time < o.death_time
           \/ (m.death_time = o.death_time /\ m.map_key <= o.map_key)

\* C10: an eviction returns absent exactly when the expiration index is
\* empty or its minimum death_time is > now; otherwise it returns (k, v),
\* k the key of the minimum row and v the value the primary index held for
\* k at the call, and afterwards k is in neither index.
Evict_Contract ==
    last.name = "removeOneExpiredEntry" =>
        LET es0 == last.pre.es
            nothing == \/ es0 = {}
                       \/ \A m \in es0 : isMinimum(es0, m) => m.death_time > time
        IN  /\ (last.ret = nullopt) <=> nothing
            /\ ~nothing =>
                   \E m \in es0 :
                       /\ isMinimum(es0, m)
                       /\ last.ret = [has_value |-> TRUE, key |-> m.map_key,
                                       value |-> last.pre.kv[m.map_key].value]
                       /\ m.map_key \notin DOMAIN kv_map_
                       /\ rowsOf(expiration_set_, m.map_key) = {}

\* an eviction that had to choose among several expired rows
Evict_Witness ==
    /\ last.name = "removeOneExpiredEntry" /\ last.ret.has_value
    /\ Cardinality({m \in last.pre.es : m.death_time <= time}) >= 2

\* ---------------------------------------------------------------------
\* the greatest element of a non-empty set of numbers
maxOf(S) == CHOOSE i \in S : \A j \in S : j <= i

\* C11: right after construction from a sequence of (key, value, ttl) the
\* store is the one that set, applied to each triple in input order at the
\* construction-time clock, leaves: a key that occurs in no triple is in
\* neither index, and for a key that occurs the last triple decides value,
\* death_time and the expiration row (one row if ttl # 0, none if ttl = 0).
Construction_LastWins ==
    last.name = "KVStorage" =>
        \A k \in Keys :
            LET idx == {i \in 1 .. Len(last.entries) : last.entries[i][1] = k}
            IN  IF idx = {}
                THEN /\ k \notin DOMAIN kv_map_
                     /\ rowsOf(expiration_set_, k) = {}
                ELSE LET e  == last.entries[maxOf(idx)]
                         dt == IF e[3] = 0 THEN maxTime_
                               ELSE (time + e[3]) % (maxTime_ + 1)
                     IN  /\ k \in DOMAIN kv_map_
                         /\ kv_map_[k] = [value |-> e[2], death_time |-> dt]
                         /\ written[k].immortal = (e[3] = 0)
                         /\ rowsOf(expiration_set_, k)
                                = IF e[3] = 0 THEN {}
                                  ELSE {timedSetMember(k, dt)}

\* a key given twice, first with a ttl and then with another value and ttl 0
Construction_Witness ==
    /\ last.name = "KVStorage" /\ Len(last.entries) = 2
    /\ last.entries[1][1] = last.entries[2][1]
    /\ last.entries[1][2] # last.entries[2][2]
    /\ last.entries[1][3] # 0 /\ last.entries[2][3] = 0

\* ---------------------------------------------------------------------
\* C12: an entry whose most recent set used ttl 0 is never returned by an
\* eviction, at any clock value; with only such entries in the store every
\* eviction returns absent.
Immortal_NeverEvicted ==
    last.name = "removeOneExpiredEntry" =>
        /\ last.ret.has_value => ~last.prew[last.ret.key].immortal
        /\ (\A k \in DOMAIN last.prew : last.prew[k].immortal)
               => last.ret = nullopt

\* an eviction attempt on a store of ttl 0 entries with the clock at the
\* sentinel value
Immortal_Witness ==
    /\ last.name = "removeOneExpiredEntry" /\ last.ret = nullopt
    /\ time = maxTime_
    /\ DOMAIN last.prew # {}
    /\ \A k \in DOMAIN last.prew : last.prew[k].immortal

\* ---------------------------------------------------------------------
\* C13 as stated: no expiration-index entry has death_time equal to the
\* sentinel, and every primary-index entry written with ttl > 0 has a
\* death_time different from the sentinel.
FiniteOnly_AsStated ==
    /\ \A m \in expiration_set_ : m.death_time # maxTime_
    /\ \A k \in DOMAIN kv_map_ :
           ~written[k].immortal => kv_map_[k].death_time # maxTime_

\* C13 amended: the expiration index holds only entries written with
\* ttl > 0; such an entry has death_time (clock + ttl) mod 2^64, which is
\* the sentinel exactly when clock + ttl is the maximum value; an entry
\* written with ttl 0 has the sentinel as death_time and no row.
FiniteOnly_ByTtl ==
    /\ \A m \in expiration_set_ :
           /\ m.map_key \in DOMAIN written
           /\ ~written[m.map_key].immortal
           /\ m.death_time = written[m.map_key].expires % (maxTime_ + 1)
    /\ \A k \in DOMAIN kv_map_ :
           IF written[k].immortal
           THEN kv_map_[k].death_time = maxTime_
           ELSE /\ kv_map_[k].death_time
                      = written[k].expires % (maxTime_ + 1)
                /\ (kv_map_[k].death_time = maxTime_
                       <=> written[k].expires = maxTime_)

\* a new key written with a ttl > 0 that lands on the sentinel
FiniteOnly_Witness ==
    /\ last.name = "set" /\ last.ttl # 0 /\ last.before = "none"
    /\ timedSetMember(last.key, maxTime_) \in expiration_set_

\* ---------------------------------------------------------------------
\* C14 (I2): the expiration index holds at most one row per key, and a row
\* of a key carries the death_time the primary index records for it: after
\* a set or remove no row with the old death_time is left.
I2_NoStaleRows ==
    \A k \in Keys :
        /\ Cardinality(rowsOf(expiration_set_, k)) <= 1
        /\ rowsOf(expiration_set_, k)
              \subseteq IF k \in DOMAIN kv_map_
                        THEN {timedSetMember(k, kv_map_[k].death_time)}
                        ELSE {}

\* an expired entry, its row still in the index, written again with a ttl
I2_Witness ==
    /\ last.name = "set" /\ last.ttl # 0 /\ last.before = "expired"
    /\ Cardinality(rowsOf(expiration_set_, last.key)) = 1

\* ---------------------------------------------------------------------
\* C15: right after set(k, v, ttl), with the clock unchanged, get(k)
\* returns v, for every ttl and every clock value, whether or not k was
\* there before; the primary index holds exactly one entry for k.
ReadAfterWrite ==
    last.name = "set" =>
        /\ last.key \in DOMAIN kv_map_
        /\ get(store, last.key, time) = some(last.value)

\* ---------------------------------------------------------------------
\* C16: a successful eviction returns the entry that is least in
\* (death_time, key) among all rows of the expiration index, and every row
\* it leaves comes strictly later in that order; so successive evictions
\* come out in non-decreasing death_time and, on equal death_time, in
\* ascending key order.
Eviction_Order ==
    (last.name = "removeOneExpiredEntry" /\ last.ret.has_value) =>
        LET k  == last.ret.key
            dt == last.pre.kv[k].death_time
        IN  /\ timedSetMember(k, dt) \in last.pre.es
            /\ \A m \in last.pre.es :
                   \/ dt < m.death_time
                   \/ (dt = m.death_time /\ k <= m.map_key)
            /\ \A m \in expiration_set_ :
                   \/ dt < m.death_time
                   \/ (dt = m.death_time /\ k < m.map_key)

\* three keys with the same death_time: the first eviction returns key 1
Eviction_Witness ==
    /\ last.name = "removeOneExpiredEntry" /\ last.ret.has_value
    /\ Cardinality(last.pre.es) = 3
    /\ \A m, o \in last.pre.es : m.death_time = o.death_time
    /\ last.ret.key = 1

\* ---------------------------------------------------------------------
\* C17: get, getManySorted, remove of a missing key and an eviction that
\* returns absent change neither the primary index nor the expiration
\* index; an expired entry stays in both.
Reads_LeaveStore ==
    (\/ last.name \in {"get", "getManySorted"}
     \/ (last.name = "remove" /\ last.ret = FALSE)
     \/ (last.name = "removeOneExpiredEntry" /\ last.ret = nullopt))
        => store = last.pre

\* get of an expired entry: absent, and the entry and its row are still there
Reads_Witness ==
    /\ last.name = "get" /\ last.ret = nullopt
    /\ last.key \in DOMAIN kv_map_
    /\ kv_map_[last.key].death_time <= time
    /\ rowsOf(expiration_set_, last.key) # {}

\* ---------------------------------------------------------------------
\* the store and the clock before the most recent step; after a set the
\* store without the key that was set
prior ==
    IF last.name \in {"get", "getManySorted", "remove", "removeOneExpiredEntry"}
    THEN last.pre
    ELSE IF last.name = "set" THEN last.rest
    ELSE store

priorTime == IF last.name = "clock" THEN last.from ELSE time

\* C18: over every step that does not set k and does not move the clock
\* back, a k for which get returned absent before the step gets absent
\* after it; without a set, get(k) turns from absent to a value only in a
\* step that moves the clock back, with the entry of k stored before and
\* after it.
Expiry_Permanent ==
    \A k \in Keys :
        (/\ ~(last.name = "set" /\ last.key = k)
         /\ get(prior, k, priorTime) = nullopt)
        => LET after == get(store, k, time)
           IN  /\ time >= priorTime => after = nullopt
               /\ after # nullopt =>
                      /\ time < priorTime
                      /\ k \in DOMAIN prior.kv
                      /\ k \in DOMAIN kv_map_

\* the clock went back and an expired entry, still stored, is returned again
Expiry_Resurrected ==
    /\ last.name = "clock" /\ time < last.from
    /\ \E k \in DOMAIN kv_map_ :
           /\ get(store, k, last.from) = nullopt
           /\ get(store, k, time) # nullopt

\* the clock moved forward over an entry that was already expired and is
\* still stored: get returned absent before and returns absent after
Expiry_Witness ==
    /\ last.name = "clock" /\ time > last.from
    /\ \E k \in DOMAIN kv_map_ :
           /\ get(store, k, last.from) = nullopt
           /\ get(store, k, time) = nullopt

\* ---------------------------------------------------------------------
\* C19: in every state, for every key k, get(k) returns v iff
\* getManySorted(k, 1) returns [(k, v)].
Get_Scan_Agree ==
    \A k \in Keys :
        LET g == get(store, k, time)
            s == getManySorted(store, k, 1, time)
        IN  IF g.has_value
            THEN s = << <<k, g.value>> >>
            ELSE s = << >> \/ s[1][1] # k

\* ---------------------------------------------------------------------
\* C20: set(k), remove(k) and an eviction that returns k leave the entry
\* and the row of every other key as they were; a successful eviction
\* takes exactly one key out of the primary index and one row out of the
\* expiration index.
Mutation_Local ==
    /\ last.name = "set" => restrict(store, last.key) = last.rest
    /\ last.name = "remove" =>
           restrict(store, last.key) = restrict(last.pre, last.key)
    /\ (last.name = "removeOneExpiredEntry" /\ last.ret.has_value) =>
           /\ restrict(store, last.ret.key) = restrict(last.pre, last.ret.key)
           /\ DOMAIN last.pre.kv \ DOMAIN kv_map_ = {last.ret.key}
           /\ Cardinality(last.pre.es) = Cardinality(expiration_set_) + 1

\* a key written again while another key holds a row with the same
\* death_time
Mutation_Witness ==
    /\ last.name = "set" /\ last.before # "none" /\ last.ttl # 0
    /\ \E m \in expiration_set_ :
           /\ m.map_key # last.key
           /\ m.death_time = kv_map_[last.key].death_time

====
